---- MODULE Spec2Model ----
(***************************************************************************)
(* Model of the cardano-connector value aggregation (cardano/mod.rs):     *)
(* sumup folds the values of a list of transaction outputs into one       *)
(* Value, group_utxos aggregates a list of UTxOs and deducts a fee.       *)
(*                                                                         *)
(* u64 arithmetic is modelled on U64Bits-bit words.  `coin += c` and      *)
(* `u64 + u64` panic on overflow when the build has overflow checks (the  *)
(* debug profile) and wrap otherwise (the release profile); the profile   *)
(* is the variable overflow_checks.  A HashMap iterates in an order set   *)
(* by its RandomState, which is drawn when the map is created: the order  *)
(* is the `hasher` argument of sumup, drawn by every call.                *)
(***************************************************************************)
EXTENDS Integers, Sequences, FiniteSets, TLC

VARIABLES
    outputs,          \* the list of TransactionOutput handed to the call
    overflow_checks,  \* TRUE: overflow panics (debug); FALSE: it wraps (release)
    pc,               \* "ready" | "returned" | "again"
    called,           \* "none" | "sumup" | "group_utxos"
    result,           \* what the call produced: a Value, an output, or a panic
    outputs2,         \* the list handed to the second sumup call
    result2,          \* what the second sumup call produced
    fee,              \* group_utxos: the fee argument
    to,               \* group_utxos: the destination address argument
    cose_key,         \* the signing-key structure handed to the decoder
    cose_sig,         \* the signed envelope handed to the decoder
    host,             \* what the JavaScript host holds or answers: a value
    wallet,           \* ConnectedWallet.wallet: the wallet the connection is of
    cip30_api,        \* ConnectedWallet.cip30_api: the API handle held
    granted           \* the handles the wallet's enable has resolved with, in order

vars == <<outputs, overflow_checks, pc, called, result, outputs2, result2, fee, to,
          cose_key, cose_sig, host, wallet, cip30_api, granted>>

----------------------------------------------------------------------------
(* Bounds and input domains *)

MaxOutputs == 2

U64Bits == 8

U64Modulus == 2 ^ U64Bits

U64Max == U64Modulus - 1

Policies == {"policyA", "policyB"}

AssetNames == {"asset1", "asset2"}

Addresses == {"addr1", "addr2"}

\* coin of a Coin value: 5 + 7 = 12; 5 + (U64Max - 4) wraps to 0
CoinVals == {0, 5, 7, U64Max - 4}

\* coin of a Multiasset value
MultiassetCoinVals == {5}

\* PositiveCoin amounts: 3 + 4 = 7; 3 + (U64Max - 2) wraps to 0, 4 + (U64Max - 2) to 1
PositiveCoinVals == {3, 4, U64Max - 2}

\* alonzo amounts are plain Coin (u64): zero is representable
LegacyAmountVals == PositiveCoinVals \cup {0}

FeeVals == {0, 5, 7, 12}

----------------------------------------------------------------------------
(* Values and outputs *)

Coin(c) == [tag |-> "Coin", coin |-> c]

Multiasset(c, ma) == [tag |-> "Multiasset", coin |-> c, assets |-> ma]

Panic == [tag |-> "Panic"]

NotCalled == [tag |-> "NotCalled"]

\* alonzo::Value: KeyValuePairs may be empty at both levels
LegacyMultiassets ==
    {<<>>}
    \cup {<< <<p, <<>> >> >> : p \in Policies}
    \cup {<< <<p, << <<a, n>> >> >> >> : p \in Policies, a \in AssetNames, n \in LegacyAmountVals}

\* conway::Value: NonEmptyKeyValuePairs at both levels, PositiveCoin amounts
PostAlonzoMultiassets ==
    {<< <<p, << <<a, n>> >> >> >> : p \in Policies, a \in AssetNames, n \in PositiveCoinVals}

LegacyValues ==
    {Coin(c) : c \in CoinVals}
    \cup {Multiasset(c, ma) : c \in MultiassetCoinVals, ma \in LegacyMultiassets}

PostAlonzoValues ==
    {Coin(c) : c \in CoinVals}
    \cup {Multiasset(c, ma) : c \in MultiassetCoinVals, ma \in PostAlonzoMultiassets}

TransactionOutputs ==
    {[era |-> "Legacy", value |-> v] : v \in LegacyValues}
    \cup {[era |-> "PostAlonzo", value |-> v] : v \in PostAlonzoValues}

OutputLists == UNION {[1..n -> TransactionOutputs] : n \in 0..MaxOutputs}

Perms(S) == {s \in [1..Cardinality(S) -> S] : \A i, j \in 1..Cardinality(S) : s[i] = s[j] => i = j}

\* the iteration orders the RandomStates of the outer map and of the inner maps give
Hashers == [outer : Perms(Policies), inner : [Policies -> Perms(AssetNames)]]

----------------------------------------------------------------------------
(* sumup *)

EmptyMap == <<>>

\* Legacy branch: and_modify(t + amount, try_from, unwrap) / or_insert_with(try_from(amount).unwrap())
LegacyAddAmount(entry, asset_name, amount, checks) ==
    IF asset_name \in DOMAIN entry
    THEN LET sum == entry[asset_name] + amount
         IN  IF (sum > U64Max /\ checks) \/ sum % U64Modulus = 0
             THEN [ok |-> FALSE, map |-> entry]
             ELSE [ok |-> TRUE, map |-> [entry EXCEPT ![asset_name] = sum % U64Modulus]]
    ELSE IF amount = 0
         THEN [ok |-> FALSE, map |-> entry]
         ELSE [ok |-> TRUE, map |-> entry @@ (asset_name :> amount)]

\* PostAlonzo branch: and_modify(t + amount, try_from, unwrap) / or_insert_with(*amount)
PostAlonzoAddAmount(entry, asset_name, amount, checks) ==
    IF asset_name \in DOMAIN entry
    THEN LET sum == entry[asset_name] + amount
         IN  IF (sum > U64Max /\ checks) \/ sum % U64Modulus = 0
             THEN [ok |-> FALSE, map |-> entry]
             ELSE [ok |-> TRUE, map |-> [entry EXCEPT ![asset_name] = sum % U64Modulus]]
    ELSE [ok |-> TRUE, map |-> entry @@ (asset_name :> amount)]

RECURSIVE AssetLoop(_, _, _, _)
\* for (asset_name, amount) in asset.iter()
AssetLoop(entry, asset, era, checks) ==
    IF asset = <<>> \/ ~entry.ok
    THEN entry
    ELSE LET asset_name == Head(asset)[1]
             amount == Head(asset)[2]
         IN  AssetLoop(IF era = "Legacy"
                       THEN LegacyAddAmount(entry.map, asset_name, amount, checks)
                       ELSE PostAlonzoAddAmount(entry.map, asset_name, amount, checks),
                       Tail(asset), era, checks)

\* assets.entry(*cert).or_default()
EntryOrDefault(assets, cert) ==
    IF cert \in DOMAIN assets THEN assets ELSE assets @@ (cert :> EmptyMap)

RECURSIVE PolicyLoop(_, _, _, _)
\* for (cert, asset) in multiasset.iter()
PolicyLoop(assets, multiasset, era, checks) ==
    IF multiasset = <<>> \/ ~assets.ok
    THEN assets
    ELSE LET cert == Head(multiasset)[1]
             asset == Head(multiasset)[2]
             with_entry == EntryOrDefault(assets.map, cert)
             entry == AssetLoop([ok |-> TRUE, map |-> with_entry[cert]], asset, era, checks)
         IN  PolicyLoop([ok |-> entry.ok, map |-> [with_entry EXCEPT ![cert] = entry.map]],
                        Tail(multiasset), era, checks)

\* a slip: `coin = c` for `coin += c`
AddCoinAssigns(coin, c, checks) ==
    [ok |-> TRUE, coin |-> c]

\* coin += c
AddCoin(coin, c, checks) ==
    LET sum == coin + c
    IN  [ok |-> ~(sum > U64Max /\ checks), coin |-> sum % U64Modulus]

\* the body of `for output in outputs`
SumupOutput(acc, output, checks) ==
    LET added == AddCoin(acc.coin, output.value.coin, checks)
    IN  IF ~added.ok
        THEN [acc EXCEPT !.panicked = TRUE]
        ELSE IF output.value.tag = "Coin"
             THEN [acc EXCEPT !.coin = added.coin]
             ELSE LET folded == PolicyLoop([ok |-> TRUE, map |-> acc.assets],
                                           output.value.assets, output.era, checks)
                  IN  [panicked |-> ~folded.ok, coin |-> added.coin, assets |-> folded.map]

RECURSIVE SumupLoop(_, _, _)
SumupLoop(acc, outs, checks) ==
    IF outs = <<>> \/ acc.panicked
    THEN acc
    ELSE SumupLoop(SumupOutput(acc, Head(outs), checks), Tail(outs), checks)

\* the keys of a map in the iteration order of its hasher
IterOrder(order, keys) ==
    LET Present(k) == k \in keys IN SelectSeq(order, Present)

\* assets.into_iter().map(|(key, value)| (key, Def(value.into_iter().collect()))).collect()
CollectAssets(assets, hasher) ==
    LET policies == IterOrder(hasher.outer, DOMAIN assets)
        Inner(p) == LET names == IterOrder(hasher.inner[p], DOMAIN assets[p])
                    IN  [j \in 1..Len(names) |-> <<names[j], assets[p][names[j]]>>]
    IN  [i \in 1..Len(policies) |-> <<policies[i], Inner(policies[i])>>]

\* Multiasset::from_vec: None for an empty vector; then Value::Multiasset or Value::Coin
Finalize(coin, assets, hasher) ==
    LET vec == CollectAssets(assets, hasher)
    IN  IF vec = <<>> THEN Coin(coin) ELSE Multiasset(coin, vec)

\* let mut coin = 0; let mut assets = HashMap::new();
Acc0 == [panicked |-> FALSE, coin |-> 0, assets |-> EmptyMap]

sumup(outs, hasher, checks) ==
    LET acc == SumupLoop(Acc0, outs, checks)
    IN  IF acc.panicked THEN Panic ELSE Finalize(acc.coin, acc.assets, hasher)

----------------------------------------------------------------------------
(* group_utxos *)

\* the Utxo list handed to group_utxos: the outputs with their inputs
Utxo(i, output) == [input |-> [transaction_id |-> i, index |-> 0], output |-> output]

UtxosOf(outs) == [i \in 1..Len(outs) |-> Utxo(i, outs[i])]

\* GroupUtxoError::CantPayFee { fee, sum }
CantPayFee(f, sum) == [tag |-> "CantPayFee", fee |-> f, sum |-> sum]

\* TransactionOutput::PostAlonzo(PseudoPostAlonzoTransactionOutput { .. })
PostAlonzoOutput(address, value, datum_option, script_ref) ==
    [tag |-> "PostAlonzo", address |-> address, value |-> value,
     datum_option |-> datum_option, script_ref |-> script_ref]

None == "None"

\* `let network_id = todo!();`: the macro panics when it is evaluated
todo == Panic

\* match &mut value { Coin(c) | Multiasset(c, _) => checked_sub(fee) ... }, then the output
DeduceFee(value, f, address) ==
    IF value.coin < f
    THEN CantPayFee(f, value.coin)
    ELSE PostAlonzoOutput(address, [value EXCEPT !.coin = value.coin - f], None, None)

group_utxos(utxos, f, address, hasher, checks) ==
    LET network_id == todo
    IN  IF network_id = Panic
        THEN Panic
        ELSE LET value == sumup([i \in 1..Len(utxos) |-> utxos[i].output], hasher, checks)
             IN  IF value = Panic THEN Panic ELSE DeduceFee(value, f, address)

----------------------------------------------------------------------------
(* The calls *)

\* the decoder's inputs while the aggregation is exercised
\* no JavaScript value in play, no connection made
Undefined == [js |-> "undefined"]

NoConnection ==
    /\ host = Undefined
    /\ wallet = "none"
    /\ cip30_api = 0
    /\ granted = <<>>

NoCoseKey == [indef |-> FALSE, entries |-> <<>>, cut |-> 0]

NoCoseSig == [announced |-> 4, header |-> [indef |-> FALSE, entries |-> <<>>],
              unprotected |-> [indef |-> FALSE, entries |-> <<>>],
              payload |-> <<>>, signature |-> <<>>]

InitSumup ==
    /\ outputs \in OutputLists
    /\ overflow_checks \in BOOLEAN
    /\ pc = "ready"
    /\ called = "none"
    /\ result = NotCalled
    /\ outputs2 = <<>>
    /\ result2 = NotCalled
    /\ fee = 0
    /\ to = "addr1"
    /\ cose_key = NoCoseKey
    /\ cose_sig = NoCoseSig
    /\ NoConnection

\* one call of sumup on the list
CallSumup ==
    /\ pc = "ready"
    /\ \E hasher \in Hashers : result' = sumup(outputs, hasher, overflow_checks)
    /\ pc' = "returned"
    /\ called' = "sumup"
    /\ UNCHANGED <<outputs, overflow_checks, outputs2, result2, fee, to, cose_key, cose_sig,
                   host, wallet, cip30_api, granted>>

\* the orders a caller can hand the same outputs in
PermutationsOf(outs) ==
    {[i \in 1..Len(outs) |-> outs[f[i]]] : f \in Perms(1..Len(outs))}

\* a second call of sumup, on the same outputs in any order
CallSumupAgain ==
    /\ pc = "returned"
    /\ called = "sumup"
    /\ \E outs \in PermutationsOf(outputs) :
          /\ outputs2' = outs
          /\ \E hasher \in Hashers : result2' = sumup(outs, hasher, overflow_checks)
    /\ pc' = "again"
    /\ UNCHANGED <<outputs, overflow_checks, called, result, fee, to, cose_key, cose_sig,
                   host, wallet, cip30_api, granted>>

\* one call of group_utxos on the list, with any fee and destination
CallGroupUtxos ==
    /\ pc = "ready"
    /\ \E f \in FeeVals, address \in Addresses, hasher \in Hashers :
          /\ fee' = f
          /\ to' = address
          /\ result' = group_utxos(UtxosOf(outputs), f, address, hasher, overflow_checks)
    /\ pc' = "returned"
    /\ called' = "group_utxos"
    /\ UNCHANGED <<outputs, overflow_checks, outputs2, result2, cose_key, cose_sig,
                   host, wallet, cip30_api, granted>>

NextSumup == CallSumup

SpecSumup == InitSumup /\ [][NextSumup]_vars

NextSumupTwice == CallSumup \/ CallSumupAgain

SpecSumupTwice == InitSumup /\ [][NextSumupTwice]_vars

NextGroupUtxos == CallGroupUtxos

SpecGroupUtxos == InitSumup /\ [][NextGroupUtxos]_vars

----------------------------------------------------------------------------
(* What the outputs add up to, in unbounded integers *)

RECURSIVE CoinSum(_)
CoinSum(outs) ==
    IF outs = <<>> THEN 0 ELSE Head(outs).value.coin + CoinSum(Tail(outs))

RECURSIVE AssetAmount(_, _)
AssetAmount(asset, a) ==
    IF asset = <<>> THEN 0
    ELSE (IF Head(asset)[1] = a THEN Head(asset)[2] ELSE 0) + AssetAmount(Tail(asset), a)

RECURSIVE MultiassetAmount(_, _, _)
MultiassetAmount(ma, p, a) ==
    IF ma = <<>> THEN 0
    ELSE (IF Head(ma)[1] = p THEN AssetAmount(Head(ma)[2], a) ELSE 0)
         + MultiassetAmount(Tail(ma), p, a)

ValueAmount(v, p, a) ==
    IF v.tag = "Multiasset" THEN MultiassetAmount(v.assets, p, a) ELSE 0

RECURSIVE PairSum(_, _, _)
PairSum(outs, p, a) ==
    IF outs = <<>> THEN 0
    ELSE ValueAmount(Head(outs).value, p, a) + PairSum(Tail(outs), p, a)

\* the (policy, asset) pair occurs in the multiasset / in some output
PairPresent(v, p, a) ==
    /\ v.tag = "Multiasset"
    /\ \E i \in 1..Len(v.assets) :
          /\ v.assets[i][1] = p
          /\ \E j \in 1..Len(v.assets[i][2]) : v.assets[i][2][j][1] = a

PairMentioned(outs, p, a) == \E i \in 1..Len(outs) : PairPresent(outs[i].value, p, a)

NoOverflow(outs) ==
    /\ CoinSum(outs) <= U64Max
    /\ \A p \in Policies, a \in AssetNames : PairSum(outs, p, a) <= U64Max

IsValue(r) == r.tag \in {"Coin", "Multiasset"}

SumupReturned == pc = "returned" /\ called = "sumup"

\* the error value the specification asks of an overflowing sum
Overflow == [tag |-> "Overflow"]

----------------------------------------------------------------------------
(* Claims *)

\* C1: sumup is order-independent: a call on any permutation of the list
\* returns a Value equal to the one the first call returned, the order of the
\* policies and asset names of the emitted Multiasset included.
C1_OrderIndependent ==
    pc = "again" => result2 = result

\* C2: sumup is deterministic: two calls on the same list return equal Values.
C2_Deterministic ==
    (pc = "again" /\ outputs2 = outputs) => result2 = result

\* C3: when the coins of the outputs add up to more than the maximum u64,
\* sumup fails with the Overflow error value: no wrapped total, no abort.
C3_CoinOverflowIsError ==
    (SumupReturned /\ CoinSum(outputs) > U64Max) => result = Overflow

\* C4: when the total of one (policy, asset) pair exceeds the maximum u64,
\* sumup fails with the Overflow error value: no wrapped amount, no abort.
C4_AssetOverflowIsError ==
    (SumupReturned /\ \E p \in Policies, a \in AssetNames : PairSum(outputs, p, a) > U64Max)
        => result = Overflow

\* C5: when no sum overflows, the Value sumup returns has the sum of the
\* outputs' coins as coin and, for every (policy, asset) pair, the sum of
\* that pair's amounts over the outputs as amount.
C5_ValueIsTheSum ==
    (SumupReturned /\ NoOverflow(outputs) /\ IsValue(result))
        => /\ result.coin = CoinSum(outputs)
           /\ \A p \in Policies, a \in AssetNames :
                 ValueAmount(result, p, a) = PairSum(outputs, p, a)

\* C5 witness: coin 5 + 5 and amounts 3 + 4 of one pair came out as 10 and 7
C5_Witness ==
    /\ SumupReturned
    /\ Len(outputs) = 2
    /\ outputs[1].era # outputs[2].era
    /\ PairSum(outputs, "policyA", "asset1") = 7
    /\ result = Multiasset(10, << <<"policyA", << <<"asset1", 7>> >> >> >>)

\* C6: the Value sumup emits is never a Multiasset with an empty asset mapping
\* and never holds a policy whose inner asset mapping is empty.
C6_NoEmptyMapping ==
    (SumupReturned /\ IsValue(result) /\ result.tag = "Multiasset")
        => /\ result.assets # <<>>
           /\ \A i \in 1..Len(result.assets) : result.assets[i][2] # <<>>

\* C7: a (policy, asset) pair whose amounts add up to exactly 0 is absent from
\* the Value sumup returns, a policy left without assets is absent too, and
\* the call returns a Value instead of aborting.
C7_ZeroIsPruned ==
    (SumupReturned /\ NoOverflow(outputs))
        => \A p \in Policies, a \in AssetNames :
              (PairMentioned(outputs, p, a) /\ PairSum(outputs, p, a) = 0)
                  => /\ IsValue(result)
                     /\ ~PairPresent(result, p, a)
                     /\ result.tag = "Multiasset"
                           => \A i \in 1..Len(result.assets) : result.assets[i][2] # <<>>

\* C8: sumup of the empty list is Coin(0); sumup returns Coin(total) exactly
\* when no (policy, asset) entry remains in the accumulator, and
\* Multiasset(total, accumulator) otherwise.
C8_CoinIffNoEntry ==
    (SumupReturned /\ IsValue(result))
        => LET acc == SumupLoop(Acc0, outputs, overflow_checks)
               Amount(p, a) == IF p \in DOMAIN acc.assets /\ a \in DOMAIN acc.assets[p]
                               THEN acc.assets[p][a] ELSE 0
           IN  /\ outputs = <<>> => result = Coin(0)
               /\ IF \A p \in DOMAIN acc.assets : DOMAIN acc.assets[p] = {}
                  THEN result = Coin(acc.coin)
                  ELSE /\ result.tag = "Multiasset"
                       /\ result.coin = acc.coin
                       /\ \A p \in Policies, a \in AssetNames :
                             ValueAmount(result, p, a) = Amount(p, a)

\* the (policy, asset, amount) triples a value carries
Triples(v) ==
    IF v.tag = "Coin" THEN {}
    ELSE UNION {{<<v.assets[i][1], v.assets[i][2][j][1], v.assets[i][2][j][2]>> :
                    j \in 1..Len(v.assets[i][2])} : i \in 1..Len(v.assets)}

SameLogicalValue(v, w) == v.coin = w.coin /\ Triples(v) = Triples(w)

\* the outputs of the other encoding that carry the logical value of o
OtherEncodings(o) ==
    {o2 \in TransactionOutputs : o2.era # o.era /\ SameLogicalValue(o2.value, o.value)}

\* what a call of sumup can return, over the iteration orders of its maps
Outcomes(outs, checks) == {sumup(outs, hasher, checks) : hasher \in Hashers}

\* C9: replacing an output of the list by an output of the other encoding
\* (Legacy or PostAlonzo) that carries the same coin and the same (policy,
\* asset, amount) triples does not change the outcome of sumup.
C9_EncodingsUniform ==
    SumupReturned
        => \A i \in 1..Len(outputs) : \A o \in OtherEncodings(outputs[i]) :
              result \in Outcomes([outputs EXCEPT ![i] = o], overflow_checks)

\* C10: group_utxos on a non-empty list whose coins add up to T, with a fee
\* F <= T, returns a PostAlonzo output to the destination with coin T - F,
\* the assets of the aggregate, and neither datum nor script reference.
C10_GroupedOutput ==
    (/\ pc = "returned"
     /\ called = "group_utxos"
     /\ outputs # <<>>
     /\ NoOverflow(outputs)
     /\ fee <= CoinSum(outputs))
        => /\ result.tag = "PostAlonzo"
           /\ result.address = to
           /\ result.value.coin = CoinSum(outputs) - fee
           /\ \A p \in Policies, a \in AssetNames :
                 ValueAmount(result.value, p, a) = PairSum(outputs, p, a)
           /\ result.datum_option = None
           /\ result.script_ref = None

\* C11: group_utxos with a fee F greater than the aggregated coin T fails with
\* CantPayFee { fee: F, sum: T } and produces no output.
C11_CantPayFee ==
    (/\ pc = "returned"
     /\ called = "group_utxos"
     /\ outputs # <<>>
     /\ NoOverflow(outputs)
     /\ fee > CoinSum(outputs))
        => result = CantPayFee(fee, CoinSum(outputs))

----------------------------------------------------------------------------
(* CBOR as cbor_event reads and writes it.  Bytes are numbers 0..255, a   *)
(* buffer is a sequence of bytes, a reader hands back what it read and     *)
(* the rest of the buffer.  Arguments of 1 and 2 bytes are read; 4- and    *)
(* 8-byte arguments, tags, floats and chunked strings do not occur in the  *)
(* inputs and are read as errors.                                          *)

Drop(bs, n) == SubSeq(bs, n + 1, Len(bs))

Take(bs, n) == SubSeq(bs, 1, n)

Fill(n, b) == [i \in 1..n |-> b]

Indefinite == -1

CborFail == [ok |-> FALSE]

\* the initial byte of an item and its argument
ReadHeader(bs) ==
    IF bs = <<>> THEN CborFail
    ELSE LET major == bs[1] \div 32
             info == bs[1] % 32
         IN  IF info < 24
             THEN [ok |-> TRUE, major |-> major, info |-> info, arg |-> info, rest |-> Drop(bs, 1)]
             ELSE IF info = 24
             THEN IF Len(bs) < 2 THEN CborFail
                  ELSE [ok |-> TRUE, major |-> major, info |-> info, arg |-> bs[2],
                        rest |-> Drop(bs, 2)]
             ELSE IF info = 25
             THEN IF Len(bs) < 3 THEN CborFail
                  ELSE [ok |-> TRUE, major |-> major, info |-> info,
                        arg |-> bs[2] * 256 + bs[3], rest |-> Drop(bs, 3)]
             ELSE IF info = 31 /\ major \in {4, 5, 7}
             THEN [ok |-> TRUE, major |-> major, info |-> info, arg |-> Indefinite,
                   rest |-> Drop(bs, 1)]
             ELSE CborFail

\* Deserializer::map / Deserializer::array: the header of a map (5) or an array (4)
ReadLen(bs, major) ==
    LET h == ReadHeader(bs)
    IN  IF h.ok /\ h.major = major
        THEN [ok |-> TRUE, len |-> h.arg, rest |-> h.rest]
        ELSE CborFail

\* Deserializer::bytes (2) / Deserializer::text (3): a definite-length string
ReadString(bs, major) ==
    LET h == ReadHeader(bs)
    IN  IF h.ok /\ h.major = major /\ h.arg <= Len(h.rest)
        THEN [ok |-> TRUE, value |-> Take(h.rest, h.arg), rest |-> Drop(h.rest, h.arg)]
        ELSE CborFail

ReadBytes(bs) == ReadString(bs, 2)

RECURSIVE ValueDeserialize(_)
RECURSIVE SkipItems(_, _)
RECURSIVE SkipUntilBreak(_, _)

\* Value::deserialize: one whole data item; of arrays and maps only the kind is kept
ValueDeserialize(bs) ==
    LET h == ReadHeader(bs)
    IN  IF ~h.ok THEN CborFail
        ELSE IF h.major = 0
        THEN [ok |-> TRUE, value |-> [type |-> "U64", v |-> h.arg], rest |-> h.rest]
        ELSE IF h.major = 1
        THEN [ok |-> TRUE, value |-> [type |-> "I64", v |-> -1 - h.arg], rest |-> h.rest]
        ELSE IF h.major \in {2, 3}
        THEN LET str == ReadString(bs, h.major)
             IN  IF ~str.ok THEN CborFail
                 ELSE [ok |-> TRUE,
                       value |-> [type |-> IF h.major = 2 THEN "Bytes" ELSE "Text", v |-> str.value],
                       rest |-> str.rest]
        ELSE IF h.major \in {4, 5}
        THEN LET per == IF h.major = 4 THEN 1 ELSE 2
                 skipped == IF h.arg = Indefinite
                            THEN SkipUntilBreak(h.rest, per)
                            ELSE SkipItems(h.rest, per * h.arg)
             IN  IF ~skipped.ok THEN CborFail
                 ELSE [ok |-> TRUE,
                       value |-> [type |-> IF h.major = 4 THEN "Array" ELSE "Object", v |-> 0],
                       rest |-> skipped.rest]
        ELSE IF h.major = 7 /\ h.info \in {20, 21, 22, 23, 31}
        THEN [ok |-> TRUE, value |-> [type |-> "Special", v |-> h.info], rest |-> h.rest]
        ELSE CborFail

\* n data items in a row
SkipItems(bs, n) ==
    IF n = 0 THEN [ok |-> TRUE, rest |-> bs]
    ELSE LET item == ValueDeserialize(bs)
         IN  IF ~item.ok THEN CborFail ELSE SkipItems(item.rest, n - 1)

\* groups of `per` data items up to the break of an indefinite array or map
SkipUntilBreak(bs, per) ==
    IF bs # <<>> /\ bs[1] = 255 THEN [ok |-> TRUE, rest |-> Drop(bs, 1)]
    ELSE LET group == SkipItems(bs, per)
         IN  IF ~group.ok THEN CborFail ELSE SkipUntilBreak(group.rest, per)

\* a slip: the break sentinel is not recognised
IsNeverBreak(value) == FALSE

IsBreak(value) == value.type = "Special" /\ value.v = 31

IsText(value, text) == value.type = "Text" /\ value.v = text

IsI64(value, n) == value.type = "I64" /\ value.v = n

\* Serializer: the initial byte and argument of an item of the given major type
WriteHeader(major, n) ==
    IF n < 24 THEN <<major * 32 + n>>
    ELSE IF n < 256 THEN <<major * 32 + 24, n>>
    ELSE <<major * 32 + 25, n \div 256, n % 256>>

\* Serializer::write_array(Len::Len(n))
WriteArray(n) == WriteHeader(4, n)

\* Serializer::write_text
WriteText(text) == WriteHeader(3, Len(text)) \o text

\* Serializer::write_bytes
WriteBytes(bytes) == WriteHeader(2, Len(bytes)) \o bytes

\* hex::decode: two digits a byte; an odd length or a non-digit is an error
HexDecode(digits) ==
    IF Len(digits) % 2 = 1 \/ \E i \in 1..Len(digits) : digits[i] \notin 0..15
    THEN [ok |-> FALSE]
    ELSE [ok |-> TRUE,
          value |-> SubSeq([i \in 1..(Len(digits) \div 2) |->
                               digits[2 * i - 1] * 16 + digits[2 * i]],
                           1, Len(digits) \div 2)]

\* the hex string of a buffer, as the wallet hands it over
HexEncode(bytes) ==
    SubSeq([i \in 1..(2 * Len(bytes)) |->
               IF i % 2 = 1 THEN bytes[(i + 1) \div 2] \div 16 ELSE bytes[i \div 2] % 16],
           1, 2 * Len(bytes))

----------------------------------------------------------------------------
(* The signed-data decoder (connected_wallet.rs) *)

\* assert_eq!(key_bytes.len(), 32)
KeyLen == 32

\* assert_eq!(signature_bytes.len(), 64)
SigLen == 64

\* "address"
AddressText == <<97, 100, 100, 114, 101, 115, 115>>

\* "Signature1"
Signature1Text == <<83, 105, 103, 110, 97, 116, 117, 114, 101, 49>>

Ok(value) == [tag |-> "Ok", value |-> value]

APIError(code, info) == [tag |-> "APIError", code |-> code, info |-> info]

\* cbor_to_api: APIErrorCode::Unknown(42) with the reader's message
cbor_to_api == APIError(<<"Unknown", 42>>, "cbor error")

MissingAddress == APIError(<<"Unknown", 42>>, "Invalid cbor, missing address")

MissingKey == APIError(<<"Unknown", 42>>, "Invalid cbor, missing key")

SignedData(key, signature, signed_data, address) ==
    [tag |-> "SignedData", key |-> key, signature |-> signature,
     signed_data |-> signed_data, address |-> address]

RECURSIVE AddressLoop(_, _, _)
\* the while loop of extract_address_from_protected_header
AddressLoop(bs, len, read) ==
    IF len # Indefinite /\ ~(read < len)
    THEN MissingAddress
    ELSE LET key == ValueDeserialize(bs)
         IN  IF ~key.ok THEN cbor_to_api
             ELSE IF IsBreak(key.value) THEN MissingAddress
             ELSE IF key.value.type = "Text"
             THEN IF key.value.v = AddressText
                  THEN LET address == ReadBytes(key.rest)
                       IN  IF address.ok THEN Ok(address.value) ELSE cbor_to_api
                  ELSE AddressLoop(key.rest, len, read + 1)
             ELSE LET value == ValueDeserialize(key.rest)
                  IN  IF ~value.ok THEN cbor_to_api
                      ELSE AddressLoop(value.rest, len, read + 1)

extract_address_from_protected_header(bytes) ==
    LET len == ReadLen(bytes, 5)
    IN  IF ~len.ok THEN cbor_to_api ELSE AddressLoop(len.rest, len.len, 0)

RECURSIVE CoseKeyLoop(_, _, _)
\* the while loop of extract_cose_key
CoseKeyLoop(bs, len, read) ==
    IF len # Indefinite /\ ~(read < len)
    THEN MissingKey
    ELSE LET key == ValueDeserialize(bs)
         IN  IF ~key.ok THEN cbor_to_api
             ELSE IF IsBreak(key.value) THEN MissingKey
             ELSE IF IsI64(key.value, -2)
             THEN LET key_bytes == ReadBytes(key.rest)
                  IN  IF ~key_bytes.ok THEN cbor_to_api
                      ELSE IF Len(key_bytes.value) # KeyLen THEN Panic
                      ELSE Ok(key_bytes.value)
             ELSE LET value == ValueDeserialize(key.rest)
                  IN  IF ~value.ok THEN cbor_to_api
                      ELSE CoseKeyLoop(value.rest, len, read + 1)

\* a slip: the whole map is read before the key is looked for
extract_cose_key_validated(bytes) ==
    LET len == ReadLen(bytes, 5)
    IN  IF ~len.ok THEN cbor_to_api
        ELSE IF ~(IF len.len = Indefinite THEN SkipUntilBreak(len.rest, 2)
                  ELSE SkipItems(len.rest, 2 * len.len)).ok
        THEN cbor_to_api
        ELSE CoseKeyLoop(len.rest, len.len, 0)

extract_cose_key(bytes) ==
    LET len == ReadLen(bytes, 5)
    IN  IF ~len.ok THEN cbor_to_api ELSE CoseKeyLoop(len.rest, len.len, 0)

\* a slip: `cbor.map()` for `cbor.map_with(..)`, the entries are left unread
MapHeaderOnly(bs) ==
    LET len == ReadLen(bs, 5)
    IN  IF ~len.ok THEN CborFail ELSE [ok |-> TRUE, rest |-> len.rest]

\* Deserializer::map_with(|cbor| { key; value }): every entry of the map is consumed
MapWith(bs) ==
    LET len == ReadLen(bs, 5)
    IN  IF ~len.ok THEN CborFail
        ELSE IF len.len = Indefinite THEN SkipUntilBreak(len.rest, 2)
        ELSE SkipItems(len.rest, 2 * len.len)

\* the Sig_structure the decoder writes
WriteSignedData(protected_header, data) ==
    WriteArray(4) \o WriteText(Signature1Text) \o WriteBytes(protected_header)
        \o WriteBytes(<<>>) \o WriteBytes(data)

\* decode_cose_sig1 from the signature on: the length assertion and the result
DecodeSignature(protected_header, address, data, signature_bytes) ==
    IF ~signature_bytes.ok THEN cbor_to_api
    ELSE IF Len(signature_bytes.value) # SigLen THEN Panic
    ELSE SignedData(Fill(KeyLen, 0), signature_bytes.value,
                    WriteSignedData(protected_header.value, data.value),
                    address.value)

\* decode_cose_sig1 once `data` was read
DecodeData(protected_header, address, data) ==
    IF ~data.ok THEN cbor_to_api
    ELSE DecodeSignature(protected_header, address, data, ReadBytes(data.rest))

\* decode_cose_sig1 once the unprotected map was read
DecodeUnprotected(protected_header, address, unprotected) ==
    IF ~unprotected.ok THEN cbor_to_api
    ELSE DecodeData(protected_header, address, ReadBytes(unprotected.rest))

\* decode_cose_sig1 once the address was looked for
DecodeAddress(protected_header, address) ==
    IF address.tag # "Ok" THEN address
    ELSE DecodeUnprotected(protected_header, address, MapWith(protected_header.rest))

\* decode_cose_sig1 once the protected header was read
DecodeProtectedHeader(protected_header) ==
    IF ~protected_header.ok THEN cbor_to_api
    ELSE DecodeAddress(protected_header,
                       extract_address_from_protected_header(protected_header.value))

\* decode_cose_sig1 once the array header was read: `_len` is not looked at
DecodeArray(len) ==
    IF ~len.ok THEN cbor_to_api ELSE DecodeProtectedHeader(ReadBytes(len.rest))

decode_cose_sig1(bytes) == DecodeArray(ReadLen(bytes, 4))

\* Ok(Self { key, ..decode_cose_sig1(&signature)? })
WithDecoded(key, decoded) ==
    IF decoded.tag # "SignedData" THEN decoded ELSE [decoded EXCEPT !.key = key.value]

\* let key = extract_cose_key(&key)?
WithKey(key, signature) ==
    IF key.tag # "Ok" THEN key ELSE WithDecoded(key, decode_cose_sig1(signature.value))

\* SignedData::from_bytes, once both arguments went through hex::decode
FromDecoded(key_hex, signature) ==
    IF ~signature.ok
    THEN APIError(<<"InternalError">>, "Couldn't decode the signature bytes")
    ELSE IF ~key_hex.ok
    THEN APIError(<<"InternalError">>, "Couldn't decode the key bytes")
    ELSE WithKey(extract_cose_key(key_hex.value), signature)

\* SignedData::from_bytes
from_bytes(key_bytes, signature_bytes) ==
    FromDecoded(HexDecode(key_bytes), HexDecode(signature_bytes))

----------------------------------------------------------------------------
(* The decoder's inputs: CBOR data items and their encoding (RFC 8949) *)

MaxKeyEntries == 3

MaxHeaderEntries == 2

MaxUnprotected == 2

MaxSignedEntries == 2

UInt(n) == [t |-> "uint", uint |-> n]

NInt(n) == [t |-> "nint", nint |-> n]

Bytes(bytes) == [t |-> "bytes", bytes |-> bytes]

Text(text) == [t |-> "text", text |-> text]

Bool(b) == [t |-> "bool", bool |-> b]

Map(indef, entries) == [t |-> "map", indef |-> indef, entries |-> entries]

RECURSIVE Encode(_)
RECURSIVE EncodeEntries(_)

Encode(item) ==
    IF item.t = "uint" THEN WriteHeader(0, item.uint)
    ELSE IF item.t = "nint" THEN WriteHeader(1, -1 - item.nint)
    ELSE IF item.t = "bytes" THEN WriteBytes(item.bytes)
    ELSE IF item.t = "text" THEN WriteText(item.text)
    ELSE IF item.t = "bool" THEN (IF item.bool THEN <<245>> ELSE <<244>>)
    ELSE IF item.indef THEN <<191>> \o EncodeEntries(item.entries) \o <<255>>
    ELSE WriteHeader(5, Len(item.entries)) \o EncodeEntries(item.entries)

EncodeEntries(entries) ==
    IF entries = <<>> THEN <<>>
    ELSE Encode(Head(entries)[1]) \o Encode(Head(entries)[2]) \o EncodeEntries(Tail(entries))

SeqsUpTo(S, n) == UNION {[1..k -> S] : k \in 0..n}

\* the two 32-byte keys, the address, the payload "data" and the signatures of the inputs
KeyA == Fill(KeyLen, 116)

KeyB == Fill(KeyLen, 174)

AddressA == Fill(4, 1)

DataText == <<100, 97, 116, 97>>

Signatures == {Fill(SigLen, 43), Fill(SigLen - 1, 43)}

\* entries of a COSE key: kty, alg, crv, a text label, a nested map that holds
\* a -2 of its own, and the x coordinate (-2) well formed and not
KeyEntries ==
    { <<UInt(1), UInt(1)>>,
      <<UInt(3), NInt(-8)>>,
      <<NInt(-1), UInt(6)>>,
      <<Text(<<107, 105, 100>>), Bytes(Fill(2, 7))>>,
      <<UInt(2), Map(FALSE, << <<NInt(-2), Bytes(Fill(KeyLen, 17))>> >>)>>,
      <<NInt(-2), Bytes(KeyA)>>,
      <<NInt(-2), Bytes(KeyB)>>,
      <<NInt(-2), Bytes(Fill(KeyLen - 1, 116))>>,
      <<NInt(-2), UInt(5)>> }

\* a key structure: a map, definite or not, whose encoding loses its last `cut` bytes
CoseKeys(max) ==
    [indef : BOOLEAN, entries : SeqsUpTo(KeyEntries, max), cut : {0, 1}]

EncodeCoseKey(key) ==
    LET bytes == Encode(Map(key.indef, key.entries))
    IN  Take(bytes, Len(bytes) - key.cut)

\* entries of a protected header: alg, kid, the address, a text label with an
\* integer value, a text label whose value is the text "address", a byte
\* string label
HeaderEntries ==
    { <<UInt(1), NInt(-8)>>,
      <<UInt(4), Bytes(Fill(3, 1))>>,
      <<Text(AddressText), Bytes(AddressA)>>,
      <<Text(<<102, 111, 111>>), UInt(1)>>,
      <<Text(<<120>>), Text(AddressText)>>,
      <<Bytes(Fill(2, 2)), UInt(1)>> }

Headers(max) == [indef : BOOLEAN, entries : SeqsUpTo(HeaderEntries, max)]

\* "hashed": false
HashedEntry == <<Text(<<104, 97, 115, 104, 101, 100>>), Bool(FALSE)>>

Unprotecteds(max) == [indef : BOOLEAN, entries : SeqsUpTo({HashedEntry}, max)]

\* the lengths the header of the outer array announces; four elements follow
Announced == {3, 4, 5, Indefinite}

CoseSigs(announced, headers, unprotecteds, payloads) ==
    [announced : announced, header : headers, unprotected : unprotecteds,
     payload : payloads, signature : Signatures]

EncodeHeader(header) == Encode(Map(header.indef, header.entries))

EncodeCoseSig(sig) ==
    (IF sig.announced = Indefinite THEN <<159>> ELSE WriteArray(sig.announced))
        \o WriteBytes(EncodeHeader(sig.header))
        \o Encode(Map(sig.unprotected.indef, sig.unprotected.entries))
        \o WriteBytes(sig.payload)
        \o WriteBytes(sig.signature)
        \o (IF sig.announced = Indefinite THEN <<255>> ELSE <<>>)

\* the headers of the from_bytes inputs: the fixture's {1: -8, 4: kid, "address": a},
\* definite and not, a header without address, one with a text label in
\* front of the address, and one that holds the text "address" as a value only
SignedHeaders ==
    {[indef |-> i,
      entries |-> << <<UInt(1), NInt(-8)>>, <<UInt(4), Bytes(Fill(3, 1))>>,
                     <<Text(AddressText), Bytes(AddressA)>> >>] : i \in BOOLEAN}
    \cup {[indef |-> FALSE, entries |-> << <<UInt(1), NInt(-8)>> >>],
          [indef |-> FALSE,
           entries |-> << <<Text(<<102, 111, 111>>), UInt(1)>>,
                          <<Text(AddressText), Bytes(AddressA)>> >>],
          [indef |-> FALSE,
           entries |-> << <<Text(<<120>>), Text(AddressText)>>,
                          <<Bytes(Fill(2, 2)), UInt(1)>> >>]}

----------------------------------------------------------------------------
(* The calls of the decoder *)

InitCose ==
    /\ outputs = <<>>
    /\ overflow_checks = FALSE
    /\ pc = "ready"
    /\ called = "none"
    /\ result = NotCalled
    /\ outputs2 = <<>>
    /\ result2 = NotCalled
    /\ fee = 0
    /\ to = "addr1"

InitCoseKey ==
    /\ InitCose
    /\ NoConnection
    /\ cose_key \in CoseKeys(MaxKeyEntries)
    /\ cose_sig = NoCoseSig

InitCoseSig1 ==
    /\ InitCose
    /\ NoConnection
    /\ cose_key = NoCoseKey
    /\ cose_sig \in CoseSigs(Announced, Headers(MaxHeaderEntries),
                             Unprotecteds(MaxUnprotected), {<<>>, DataText})

InitSignedData ==
    /\ InitCose
    /\ NoConnection
    /\ cose_key \in {key \in CoseKeys(MaxSignedEntries) : key.cut = 0}
    /\ cose_sig \in CoseSigs({4}, SignedHeaders, {[indef |-> FALSE, entries |-> <<HashedEntry>>]},
                             {DataText})

Returns(name, value) ==
    /\ pc = "ready"
    /\ pc' = "returned"
    /\ called' = name
    /\ result' = value
    /\ UNCHANGED <<outputs, overflow_checks, outputs2, result2, fee, to, cose_key, cose_sig,
                   host, wallet, cip30_api, granted>>

CallExtractCoseKey ==
    Returns("extract_cose_key", extract_cose_key(EncodeCoseKey(cose_key)))

CallExtractAddress ==
    Returns("extract_address_from_protected_header",
            extract_address_from_protected_header(EncodeHeader(cose_sig.header)))

CallDecodeCoseSig1 ==
    Returns("decode_cose_sig1", decode_cose_sig1(EncodeCoseSig(cose_sig)))

CallFromBytes ==
    \E key \in {EncodeCoseKey(cose_key)}, signature \in {EncodeCoseSig(cose_sig)} :
        \E key_bytes \in {HexEncode(key)}, signature_bytes \in {HexEncode(signature)} :
            Returns("from_bytes", from_bytes(key_bytes, signature_bytes))

NextCoseKey == CallExtractCoseKey

SpecCoseKey == InitCoseKey /\ [][NextCoseKey]_vars

NextCoseSig1 == CallExtractAddress \/ CallDecodeCoseSig1

SpecCoseSig1 == InitCoseSig1 /\ [][NextCoseSig1]_vars

NextSignedData == CallFromBytes

SpecSignedData == InitSignedData /\ [][NextSignedData]_vars

----------------------------------------------------------------------------
(* Claims on the decoder *)

Returned(name) == pc = "returned" /\ called = name

IsAddressEntry(entry) == entry[1].t = "text" /\ entry[1].text = AddressText

HasAddress(header) == \E i \in 1..Len(header.entries) : IsAddressEntry(header.entries[i])

\* the value of the first entry of the header whose key is the text "address"
AddressOf(header) ==
    LET i == CHOOSE i \in 1..Len(header.entries) :
                 /\ IsAddressEntry(header.entries[i])
                 /\ \A j \in 1..(i - 1) : ~IsAddressEntry(header.entries[j])
    IN  header.entries[i][2]

\* C12: when the protected header holds the text key "address" with a byte
\* string value, address extraction returns exactly that byte string, whatever
\* integer or text keys precede it.
C12_AddressExtracted ==
    (/\ Returned("extract_address_from_protected_header")
     /\ HasAddress(cose_sig.header)
     /\ AddressOf(cose_sig.header).t = "bytes")
        => result = Ok(AddressOf(cose_sig.header).bytes)

\* a byte string as RFC 8949 encodes it, for lengths below 256
Bstr(bytes) ==
    (IF Len(bytes) < 24 THEN <<64 + Len(bytes)>> ELSE <<88, Len(bytes)>>) \o bytes

\* [ "Signature1", protected header, h'', payload ]: 0x84, 0x6a "Signature1", bstr, 0x40, bstr
SigStructure(sig) ==
    <<132, 106, 83, 105, 103, 110, 97, 116, 117, 114, 101, 49>>
        \o Bstr(EncodeHeader(sig.header)) \o <<64>> \o Bstr(sig.payload)

\* C13: the to-be-signed bytes of a decoded envelope are the encoding of the
\* 4-element array ["Signature1", the protected header bytes as they came,
\* the empty byte string, the payload], where the payload is the envelope's third
\* element however many entries the unprotected map holds.
C13_SigStructure ==
    Returned("decode_cose_sig1")
        => /\ result.tag = "SignedData" => result.signed_data = SigStructure(cose_sig)
           /\ (/\ cose_sig.header.entries # <<>>
               /\ IsAddressEntry(cose_sig.header.entries[1])
               /\ Len(cose_sig.signature) = SigLen)
                 => result.tag = "SignedData"

\* C13 witness: an envelope with two unprotected entries and the payload "data" was decoded
C13_Witness ==
    /\ Returned("decode_cose_sig1")
    /\ Len(cose_sig.unprotected.entries) = 2
    /\ cose_sig.payload = DataText
    /\ result.tag = "SignedData"
    /\ result.signed_data = SigStructure(cose_sig)

\* C14: an envelope whose fourth element is a byte string of a length other
\* than 64 makes decode return an error value to its caller; the process is
\* not aborted.
C14_MalformedSignature ==
    (/\ Returned("decode_cose_sig1")
     /\ cose_sig.announced = 4
     /\ Len(cose_sig.signature) # SigLen)
        => result.tag = "APIError"

IsKeyEntry(entry) == entry[1].t = "nint" /\ entry[1].nint = -2

HasKey(key) == \E i \in 1..Len(key.entries) : IsKeyEntry(key.entries[i])

\* the value of the first entry of the key structure whose key is the integer -2
KeyOf(key) ==
    LET i == CHOOSE i \in 1..Len(key.entries) :
                 /\ IsKeyEntry(key.entries[i])
                 /\ \A j \in 1..(i - 1) : ~IsKeyEntry(key.entries[j])
    IN  key.entries[i][2]

\* C15: when the entry of key -2 holds a byte string whose length is not 32,
\* key extraction returns an error value to its caller; the process is not
\* aborted.
C15_MalformedKey ==
    (/\ Returned("extract_cose_key")
     /\ HasKey(cose_key)
     /\ KeyOf(cose_key).t = "bytes"
     /\ Len(KeyOf(cose_key).bytes) # KeyLen)
        => result.tag = "APIError"

\* C16: an envelope whose outer array announces a length other than 4, or an
\* indefinite length, fails decode with an error, even when four well formed
\* elements follow the array header.
C16_ArrayOfFour ==
    (/\ Returned("decode_cose_sig1")
     /\ cose_sig.announced # 4
     /\ Len(cose_sig.signature) = SigLen)
        => result.tag = "APIError"

\* C17: an envelope whose protected header holds no text key "address" fails
\* decode with the missing-address error, for definite and for indefinite
\* headers, and no SignedData is produced.
C17_MissingAddress ==
    (/\ Returned("decode_cose_sig1")
     /\ cose_sig.announced = 4
     /\ Len(cose_sig.signature) = SigLen
     /\ ~HasAddress(cose_sig.header))
        => result = MissingAddress

\* the position of the first entry of the key structure whose key is the integer -2
KeyAt(key) ==
    CHOOSE i \in 1..Len(key.entries) :
        /\ IsKeyEntry(key.entries[i])
        /\ \A j \in 1..(i - 1) : ~IsKeyEntry(key.entries[j])

\* the bytes of the key structure reach the reader whole up to the end of the
\* first entry of key -2: the lost last byte, if any, lies behind that entry
IntactUpToKey(key) == key.cut = 0 \/ key.indef \/ KeyAt(key) < Len(key.entries)

C20_SignedDataFields ==
    (/\ Returned("from_bytes")
     /\ result.tag = "SignedData")
        => /\ HasKey(cose_key)
           /\ KeyOf(cose_key).t = "bytes"
           /\ result.key = KeyOf(cose_key).bytes
           /\ Len(result.key) = KeyLen
           /\ result.key # Fill(KeyLen, 0)
           /\ result.signature = cose_sig.signature
           /\ Len(result.signature) = SigLen
           /\ HasAddress(cose_sig.header)
           /\ AddressOf(cose_sig.header).t = "bytes"
           /\ result.address = AddressOf(cose_sig.header).bytes
           /\ result.signed_data = SigStructure(cose_sig)

----------------------------------------------------------------------------
(* The error codes (error.rs) and the values they are decoded from *)

\* i64 on the word size of the model
I64Min == -(U64Modulus \div 2)

I64Max == (U64Modulus \div 2) - 1

\* serde_json::Number: json! stores an integer below zero as NegInt and any
\* other integer as PosInt
PosInt(u) == [json |-> "PosInt", u |-> u]

NegInt(i) == [json |-> "NegInt", i |-> i]

JsonFloat == [json |-> "Float"]

JsonString == [json |-> "String"]

JsonValues ==
    {PosInt(u) : u \in 0..U64Max} \cup {NegInt(i) : i \in I64Min..(-1)}
        \cup {JsonFloat, JsonString}

\* JavaScript values: null, a number that is a safe integer, a number that is
\* not, a string, a function, an object with its properties, an array
Null == [js |-> "null"]

JsNumber(n) == [js |-> "number", num |-> n]

JsFraction == [js |-> "fraction"]

JsString(s) == [js |-> "string", str |-> s]

\* a function and an object own properties: name and value, in insertion order
JsFunction(props) == [js |-> "function", props |-> props]

JsObject(props) == [js |-> "object", props |-> props]

JsArray(elements) == [js |-> "array", elements |-> elements]

\* a value to decode and the Deserializer it is handed to: serde_json::from_value
\* in the tests, serde_wasm_bindgen::from_value in the library
Encoded ==
    [de : {"serde_json"}, value : JsonValues]
        \cup [de : {"serde_wasm_bindgen"},
              value : {JsNumber(n) : n \in I64Min..I64Max}
                          \cup {JsFraction, JsString("-1"), Undefined, Null}]

\* how a Deserializer answers a visitor
Visit(method, v) == [method |-> method, v |-> v]

InvalidType == [method |-> "invalid_type"]

\* serde_json: the visitor method goes by the kind of the number, whatever
\* integer type was asked for
JsonVisit(value) ==
    IF value.json = "PosInt" THEN Visit("visit_u64", value.u)
    ELSE IF value.json = "NegInt" THEN Visit("visit_i64", value.i)
    ELSE IF value.json = "Float" THEN Visit("visit_f64", 0)
    ELSE InvalidType

\* deserializer.deserialize_i64(Visitor)
deserialize_i64(encoded) ==
    IF encoded.de = "serde_json" THEN JsonVisit(encoded.value)
    ELSE IF encoded.value.js = "number" THEN Visit("visit_i64", encoded.value.num)
    ELSE InvalidType

\* deserializer.deserialize_u64(Visitor)
deserialize_u64(encoded) ==
    IF encoded.de = "serde_json" THEN JsonVisit(encoded.value)
    ELSE IF encoded.value.js = "number" /\ encoded.value.num >= 0
    THEN Visit("visit_u64", encoded.value.num)
    ELSE InvalidType

\* a serde error: no value was decoded
DecodeError == [tag |-> "DecodeError"]

\* the Visitor of APIErrorCode: visit_i64 is its only method, every other
\* visit_* is the trait's default, an invalid-type error
APIErrorCodeVisitor(visit) ==
    IF visit.method # "visit_i64" THEN DecodeError
    ELSE IF visit.v = -1 THEN Ok(<<"InvalidRequest">>)
    ELSE IF visit.v = -2 THEN Ok(<<"InternalError">>)
    ELSE IF visit.v = -3 THEN Ok(<<"Refused">>)
    ELSE IF visit.v = -4 THEN Ok(<<"AccountChange">>)
    ELSE Ok(<<"Unknown", visit.v>>)

\* impl Deserialize for APIErrorCode
APIErrorCodeDeserialize(encoded) == APIErrorCodeVisitor(deserialize_i64(encoded))

\* a slip: UserDeclined is not told from an unknown code
DataSignErrorCodeVisitorTwo(visit) ==
    IF visit.method # "visit_u64" THEN DecodeError
    ELSE IF visit.v = 1 THEN Ok(<<"ProofGeneration">>)
    ELSE IF visit.v = 2 THEN Ok(<<"AddressNotPK">>)
    ELSE Ok(<<"Unknown", visit.v>>)

\* the Visitor of DataSignErrorCode: visit_u64 is its only method
DataSignErrorCodeVisitor(visit) ==
    IF visit.method # "visit_u64" THEN DecodeError
    ELSE IF visit.v = 1 THEN Ok(<<"ProofGeneration">>)
    ELSE IF visit.v = 2 THEN Ok(<<"AddressNotPK">>)
    ELSE IF visit.v = 3 THEN Ok(<<"UserDeclined">>)
    ELSE Ok(<<"Unknown", visit.v>>)

\* impl Deserialize for DataSignErrorCode
DataSignErrorCodeDeserialize(encoded) == DataSignErrorCodeVisitor(deserialize_u64(encoded))

InitErrorCode ==
    /\ InitCose
    /\ cose_key = NoCoseKey
    /\ cose_sig = NoCoseSig
    /\ host \in Encoded
    /\ wallet = "none"
    /\ cip30_api = 0
    /\ granted = <<>>

CallAPIErrorCodeDeserialize ==
    Returns("APIErrorCode::deserialize", APIErrorCodeDeserialize(host))

CallDataSignErrorCodeDeserialize ==
    Returns("DataSignErrorCode::deserialize", DataSignErrorCodeDeserialize(host))

NextErrorCode == CallAPIErrorCodeDeserialize \/ CallDataSignErrorCodeDeserialize

SpecErrorCode == InitErrorCode /\ [][NextErrorCode]_vars

----------------------------------------------------------------------------
(* The wallets the host injects (wallet.rs) *)

MaxWallets == 3

\* JsValue::is_object: typeof value === "object" and value is not null
is_object(value) == value.js \in {"object", "array"}

RECURSIVE Lookup(_, _, _)
Lookup(props, prop, i) ==
    IF i > Len(props) THEN Undefined
    ELSE IF props[i][1] = prop THEN props[i][2]
    ELSE Lookup(props, prop, i + 1)

\* js_sys::Reflect::get on an object or a function
ReflectGet(value, prop) ==
    IF value.js \in {"object", "function"} THEN Lookup(value.props, prop, 1) ELSE Undefined

\* js_sys::Object::values: the values of the own properties, in their order
ObjectValues(value) ==
    IF value.js = "array" THEN value.elements
    ELSE [i \in 1..Len(value.props) |-> value.props[i][2]]

has_string_property(value, prop) == ReflectGet(value, prop).js = "string"

has_function_property(value, prop) == ReflectGet(value, prop).js = "function"

\* a slip: isEnabled is not asked for
looks_like_cip30_wallet_without_is_enabled(value) ==
    IF ~is_object(value) THEN FALSE
    ELSE /\ has_string_property(value, "name")
         /\ has_string_property(value, "apiVersion")
         /\ has_string_property(value, "icon")
         /\ has_function_property(value, "enable")

looks_like_cip30_wallet(value) ==
    IF ~is_object(value) THEN FALSE
    ELSE /\ has_string_property(value, "name")
         /\ has_string_property(value, "apiVersion")
         /\ has_string_property(value, "icon")
         /\ has_function_property(value, "enable")
         /\ has_function_property(value, "isEnabled")

RECURSIVE WalletsLoop(_, _)
\* the for loop of wallets over the values
WalletsLoop(elements, vec) ==
    IF elements = <<>> THEN vec
    ELSE IF ~looks_like_cip30_wallet(Head(elements))
    THEN WalletsLoop(Tail(elements), vec)
    ELSE WalletsLoop(Tail(elements), Append(vec, [cip30_wallet |-> Head(elements)]))

\* wallets, from the value it found for window.cardano
WalletsOf(fresh_wallets) ==
    IF is_object(fresh_wallets) THEN WalletsLoop(ObjectValues(fresh_wallets), <<>>) ELSE <<>>

\* the host: window.cardano, whether reading it succeeds (a getter may throw),
\* and the thread-local WALLETS, which holds what window.cardano was when it
\* was first used
Unset == [js |-> "unset"]

\* wallets: the static is initialised on first use; a failed read of
\* window.cardano falls back on the static
wallets(window) ==
    IF window.WALLETS = Unset /\ ~window.readable THEN Panic
    ELSE IF window.readable THEN WalletsOf(window.cardano)
    ELSE WalletsOf(window.WALLETS)

\* the entries a host may hold: two wallets, a wallet short of each property,
\* properties of the wrong kind, a function that has every property, values
\* that are no objects
Cip30WalletProps(name) ==
    << <<"name", JsString(name)>>, <<"apiVersion", JsString("1")>>,
       <<"icon", JsString("data:")>>, <<"enable", JsFunction(<<>>)>>,
       <<"isEnabled", JsFunction(<<>>)>> >>

Without(props, i) == SubSeq(props, 1, i - 1) \o SubSeq(props, i + 1, Len(props))

HostEntries ==
    {JsObject(Cip30WalletProps("lace")), JsObject(Cip30WalletProps("eternl"))}
        \cup {JsObject(Without(Cip30WalletProps("lace"), i)) : i \in 1..5}
        \cup {JsObject([Cip30WalletProps("lace") EXCEPT ![1] = <<"name", JsNumber(1)>>]),
              JsObject([Cip30WalletProps("lace") EXCEPT ![4] = <<"enable", JsString("no")>>]),
              JsFunction(Cip30WalletProps("lace")),
              JsString("lace"), Null}

Keys == <<"a", "b", "c", "d">>

\* window.cardano: an object of up to max entries, an array, or no object
Cardanos(max) ==
    {JsObject([i \in 1..Len(entries) |-> <<Keys[i], entries[i]>>]) :
        entries \in SeqsUpTo(HostEntries, max)}
        \cup {JsArray(<<JsObject(Cip30WalletProps("lace"))>>),
              JsFunction(<< <<"lace", JsObject(Cip30WalletProps("lace"))>> >>),
              Undefined, Null, JsString("cardano")}

InitWallets ==
    /\ InitCose
    /\ cose_key = NoCoseKey
    /\ cose_sig = NoCoseSig
    /\ host \in [cardano : Cardanos(MaxWallets), readable : BOOLEAN, WALLETS : {Unset}]
    /\ wallet = "none"
    /\ cip30_api = 0
    /\ granted = <<>>

\* one call of wallets(); the first use of WALLETS reads window.cardano
CallWallets ==
    /\ pc \in {"ready", "returned"}
    /\ pc' = "returned"
    /\ called' = "wallets"
    /\ result' = wallets(host)
    /\ host' = IF host.WALLETS = Unset /\ host.readable
               THEN [host EXCEPT !.WALLETS = host.cardano]
               ELSE host
    /\ UNCHANGED <<outputs, overflow_checks, outputs2, result2, fee, to, cose_key, cose_sig,
                   wallet, cip30_api, granted>>

\* the host replaces window.cardano, or its getter starts or stops throwing
HostChanges ==
    /\ called = "wallets"
    /\ pc' = "ready"
    /\ \/ \E cardano \in {Undefined, JsObject(<<>>),
                          JsObject(<< <<"a", JsObject(Cip30WalletProps("lace"))>> >>)} :
              host' = [host EXCEPT !.cardano = cardano]
       \/ host' = [host EXCEPT !.readable = ~host.readable]
    /\ UNCHANGED <<outputs, overflow_checks, called, result, outputs2, result2, fee, to,
                   cose_key, cose_sig, wallet, cip30_api, granted>>

NextWallets == CallWallets \/ HostChanges

SpecWallets == InitWallets /\ [][NextWallets]_vars

----------------------------------------------------------------------------
(* Claims on the error codes *)

\* the value to decode is an integer, and which
IsInteger(encoded) ==
    \/ encoded.de = "serde_json" /\ encoded.value.json \in {"PosInt", "NegInt"}
    \/ encoded.de = "serde_wasm_bindgen" /\ encoded.value.js = "number"

IntegerOf(encoded) ==
    IF encoded.de = "serde_wasm_bindgen" THEN encoded.value.num
    ELSE IF encoded.value.json = "PosInt" THEN encoded.value.u
    ELSE encoded.value.i

\* C21: decoding a host API error code maps -1 to InvalidRequest, -2 to
\* InternalError, -3 to Refused, -4 to AccountChange and every other integer v
\* to Unknown(v); decoding an integer code never fails.
C21_APIErrorCode ==
    (/\ Returned("APIErrorCode::deserialize")
     /\ IsInteger(host)
     /\ IntegerOf(host) \in I64Min..I64Max)
        => result = Ok(CASE IntegerOf(host) = -1 -> <<"InvalidRequest">>
                         [] IntegerOf(host) = -2 -> <<"InternalError">>
                         [] IntegerOf(host) = -3 -> <<"Refused">>
                         [] IntegerOf(host) = -4 -> <<"AccountChange">>
                         [] OTHER -> <<"Unknown", IntegerOf(host)>>)

\* C22: decoding a data-signing error code maps 1 to ProofGeneration, 2 to
\* AddressNotPK, 3 to UserDeclined and every other unsigned integer v to
\* Unknown(v).
C22_DataSignErrorCode ==
    (/\ Returned("DataSignErrorCode::deserialize")
     /\ IsInteger(host)
     /\ IntegerOf(host) \in 0..U64Max)
        => result = Ok(CASE IntegerOf(host) = 1 -> <<"ProofGeneration">>
                         [] IntegerOf(host) = 2 -> <<"AddressNotPK">>
                         [] IntegerOf(host) = 3 -> <<"UserDeclined">>
                         [] OTHER -> <<"Unknown", IntegerOf(host)>>)

\* C22 witness: the code 3 was decoded from a JSON number, as the test does
C22_Witness ==
    /\ Returned("DataSignErrorCode::deserialize")
    /\ host = [de |-> "serde_json", value |-> PosInt(3)]
    /\ result = Ok(<<"UserDeclined">>)

----------------------------------------------------------------------------
(* Claims on the wallets *)

\* the value has the property, of the given kind
HasProperty(value, prop, kind) ==
    /\ value.js \in {"object", "function"}
    /\ \E i \in 1..Len(value.props) : value.props[i][1] = prop /\ value.props[i][2].js = kind

\* string properties name, apiVersion and icon, function properties enable and isEnabled
HasCip30Properties(value) ==
    /\ \A prop \in {"name", "apiVersion", "icon"} : HasProperty(value, prop, "string")
    /\ \A prop \in {"enable", "isEnabled"} : HasProperty(value, prop, "function")

IsObjectWithCip30Properties(value) == value.js = "object" /\ HasCip30Properties(value)

\* the entries of window.cardano in value order
EntriesOf(cardano) ==
    IF cardano.js = "array" THEN cardano.elements
    ELSE [i \in 1..Len(cardano.props) |-> cardano.props[i][2]]

WalletList(entries) == [i \in 1..Len(entries) |-> [cip30_wallet |-> entries[i]]]

\* C23 as stated: wallets() lists exactly the entries of window.cardano that
\* have string properties name, apiVersion and icon and function properties
\* enable and isEnabled, each once and in the object's value order; when
\* window.cardano is not an object the list is empty.
C23_WalletsByProperties ==
    (/\ Returned("wallets")
     /\ host.readable)
        => result = IF host.cardano.js \in {"object", "array"}
                    THEN WalletList(SelectSeq(EntriesOf(host.cardano), HasCip30Properties))
                    ELSE <<>>

\* C23 amended: wallets() lists exactly the entries of window.cardano that are
\* objects (functions and null are not) and have these properties, each once
\* and in the object's value order; when window.cardano is not an object the
\* list is empty.
C23_Wallets ==
    (/\ Returned("wallets")
     /\ host.readable)
        => result = IF host.cardano.js \in {"object", "array"}
                    THEN WalletList(SelectSeq(EntriesOf(host.cardano),
                                              IsObjectWithCip30Properties))
                    ELSE <<>>

\* C23 witness: of an entry without isEnabled and two wallets behind it, the
\* two wallets were listed in their order
C23_Witness ==
    /\ Returned("wallets")
    /\ host.readable
    /\ host.cardano.js = "object"
    /\ Len(host.cardano.props) = 3
    /\ ~HasProperty(host.cardano.props[1][2], "isEnabled", "function")
    /\ result = <<[cip30_wallet |-> JsObject(Cip30WalletProps("eternl"))],
                  [cip30_wallet |-> JsObject(Cip30WalletProps("lace"))]>>

----------------------------------------------------------------------------
(* The connection to a wallet (connected_wallet.rs, wallet.rs).  The       *)
(* wallet settles each promise with a JavaScript value of its choosing.    *)

MaxElements == 2

MaxEnables == 3

\* Hash<32>
HashLen == 32

\* usize of the wasm32 target has half the width of u64
USizeMax == (2 ^ (U64Bits \div 2)) - 1

\* a string given by its characters: the digits 0..15, 16 for any other one
JsChars(chars) == [js |-> "string", chars |-> chars]

\* serde_wasm_bindgen::from_value of a value of the host
FromValue(value) == [de |-> "serde_wasm_bindgen", value |-> value]

\* String::deserialize: a primitive string
StringDeserialize(value) == IF value.js = "string" THEN Ok(value.str) ELSE DecodeError

UsizeVisitor(visit) ==
    IF visit.method = "visit_u64" /\ visit.v <= USizeMax THEN Ok(visit.v) ELSE DecodeError

\* usize::deserialize
UsizeDeserialize(value) == UsizeVisitor(deserialize_u64(FromValue(value)))

\* the derived Deserialize of PaginateError: deserialize_struct wants an object
\* and reads the field maxSize off it, other properties are not looked at
PaginateErrorDeserialize(value) ==
    IF ~is_object(value) THEN DecodeError
    ELSE IF ReflectGet(value, "maxSize").js = "undefined" THEN DecodeError
    ELSE UsizeDeserialize(ReflectGet(value, "maxSize"))

APIErrorFields(code, info) ==
    IF code.tag # "Ok" \/ info.tag # "Ok" THEN DecodeError
    ELSE Ok(APIError(code.value, info.value))

\* the derived Deserialize of APIError: the fields code and info of an object
APIErrorDeserialize(value) ==
    IF ~is_object(value) THEN DecodeError
    ELSE IF ReflectGet(value, "code").js = "undefined" THEN DecodeError
    ELSE IF ReflectGet(value, "info").js = "undefined" THEN DecodeError
    ELSE APIErrorFields(APIErrorCodeDeserialize(FromValue(ReflectGet(value, "code"))),
                        StringDeserialize(ReflectGet(value, "info")))

CouldntDecode == APIError(<<"InternalError">>, "Couldn't decode the error content")

MapErr(decoded) == IF decoded.tag = "Ok" THEN decoded.value ELSE CouldntDecode

\* serde_wasm_bindgen::from_value(error).map_err(..).and_then(Err)
ErrorContent(error) == MapErr(APIErrorDeserialize(error))

\* TransactionInput: an array of the transaction id and the index
DecodeIndex(id, index) ==
    IF ~index.ok \/ index.major # 0 THEN CborFail
    ELSE [ok |-> TRUE, value |-> [transaction_id |-> id.value, index |-> index.arg],
          rest |-> index.rest]

DecodeTransactionId(id) ==
    IF ~id.ok THEN CborFail
    ELSE IF Len(id.value) # HashLen THEN CborFail
    ELSE DecodeIndex(id, ReadHeader(id.rest))

DecodeTransactionInput(array) ==
    IF ~array.ok \/ array.len # 2 THEN CborFail ELSE DecodeTransactionId(ReadBytes(array.rest))

\* TransactionOutput::Legacy: an array of the address and the amount; the
\* outputs of the inputs are legacy outputs of a coin, any other is read as
\* an error
DecodeAmount(address, amount) ==
    IF ~amount.ok \/ amount.major # 0 THEN CborFail
    ELSE [ok |-> TRUE, value |-> [address |-> address.value, amount |-> amount.arg],
          rest |-> amount.rest]

DecodeOutputAddress(address) ==
    IF ~address.ok THEN CborFail ELSE DecodeAmount(address, ReadHeader(address.rest))

DecodeTransactionOutput(array) ==
    IF ~array.ok \/ array.len # 2 THEN CborFail ELSE DecodeOutputAddress(ReadBytes(array.rest))

DecodeUtxoOutput(input, output) ==
    IF ~output.ok THEN CborFail
    ELSE [ok |-> TRUE, value |-> [input |-> input.value, output |-> output.value]]

DecodeUtxoInput(input) ==
    IF ~input.ok THEN CborFail
    ELSE DecodeUtxoOutput(input, DecodeTransactionOutput(ReadLen(input.rest, 4)))

DecodeUtxoArray(array) ==
    IF ~array.ok \/ array.len # 2 THEN CborFail
    ELSE DecodeUtxoInput(DecodeTransactionInput(ReadLen(array.rest, 4)))

\* minicbor::decode::<Utxo>: #[cbor(array)] of the input and the output
DecodeUtxo(bytes) == DecodeUtxoArray(ReadLen(bytes, 4))

\* the CBOR of a UTxO as a wallet writes it
EncodeUtxo(id, index, address, coin) ==
    WriteArray(2) \o WriteArray(2) \o WriteBytes(id) \o WriteHeader(0, index)
        \o WriteArray(2) \o WriteBytes(address) \o WriteHeader(0, coin)

RECURSIVE UtxosLoop(_, _, _)
RECURSIVE UtxosHex(_, _, _, _)
RECURSIVE UtxosPush(_, _, _, _)

\* for element in cbored_utxos: the three unwrap() of the loop body
UtxosLoop(elements, i, utxos) ==
    IF i > Len(elements) THEN Ok(utxos)
    ELSE IF elements[i].js # "string" THEN Panic
    ELSE UtxosHex(elements, i, utxos, HexDecode(elements[i].chars))

UtxosHex(elements, i, utxos, hex) ==
    IF ~hex.ok THEN Panic ELSE UtxosPush(elements, i, utxos, DecodeUtxo(hex.value))

UtxosPush(elements, i, utxos, utxo) ==
    IF ~utxo.ok THEN Panic ELSE UtxosLoop(elements, i + 1, Append(utxos, utxo.value))

\* _utxos, the arm Ok(cbored_utxos)
GetUtxosOk(cbored_utxos) ==
    IF cbored_utxos.js = "null" THEN Ok(<<>>) ELSE UtxosLoop(cbored_utxos.elements, 1, <<>>)

\* a slip: the pagination error is not looked for
GetUtxosErrWithoutPagination(error) == ErrorContent(error)

\* _utxos, the arm Err(error)
GetUtxosErr(error) ==
    IF PaginateErrorDeserialize(error).tag = "Ok" THEN Ok(<<>>) ELSE ErrorContent(error)

\* what a wallet puts in the array getUtxos resolves with
UtxoElements ==
    {JsChars(HexEncode(EncodeUtxo(Fill(HashLen, 1), 0, <<97>>, 5))),
     JsChars(HexEncode(EncodeUtxo(Fill(HashLen, 2), 1, <<98, 99>>, 300))),
     JsChars(HexEncode(EncodeUtxo(Fill(HashLen - 1, 3), 0, <<97>>, 5))),
     JsChars(HexEncode(<<0>>)),
     JsChars(<<1, 16>>),
     JsChars(<<1>>),
     JsNumber(42),
     Null}

\* what getUtxos resolves with: null or an array
UtxosAnswers(max) ==
    {Null} \cup {JsArray(elements) : elements \in UNION {[1..n -> UtxoElements] : n \in 0..max}}

ErrorProps(prop, values) == {<<>>} \cup {<< <<prop, value>> >> : value \in values}

\* what a wallet rejects a promise with
ErrorValues ==
    {JsObject(max_size \o code \o info) :
        max_size \in ErrorProps("maxSize", {JsNumber(0), JsNumber(USizeMax),
                                            JsNumber(USizeMax + 1), JsNumber(-1),
                                            JsFraction, JsString("ten")}),
        code \in ErrorProps("code", {JsNumber(-1), JsNumber(-4), JsNumber(0), JsFraction}),
        info \in ErrorProps("info", {JsString("declined"), JsNumber(1)})}
    \cup {Undefined, Null, JsString("declined"), JsNumber(-3), JsArray(<<>>),
          JsFunction(<< <<"code", JsNumber(-3)>>, <<"info", JsString("declined")>> >>),
          JsFunction(<< <<"maxSize", JsNumber(0)>> >>)}

Handles == 1..2

Pending == [promise |-> "pending"]

Resolved(value) == [promise |-> "resolved", value |-> value]

Rejected(value) == [promise |-> "rejected", value |-> value]

Unit == <<>>

\* a connection as Wallet::enable makes it: ConnectedWallet::new(wallet, cip30_api)
InitConnectedWallet ==
    /\ InitCose
    /\ cose_key = NoCoseKey
    /\ cose_sig = NoCoseSig
    /\ host = Pending
    /\ wallet \in {[cip30_wallet |-> JsObject(Cip30WalletProps(name))] : name \in {"lace", "eternl"}}
    /\ cip30_api \in Handles
    /\ granted = <<cip30_api>>

Calls(name) ==
    /\ pc \in {"ready", "returned"}
    /\ pc' = "awaiting"
    /\ called' = name
    /\ result' = NotCalled
    /\ host' = Pending
    /\ UNCHANGED <<outputs, overflow_checks, outputs2, result2, fee, to, cose_key, cose_sig,
                   wallet, cip30_api, granted>>

\* self.cip30_api.get_utxos(None, pagination)
CallAllUtxos == Calls("all_utxos")

\* self.cip30_api.get_utxos(Some(hex::encode(bytes)), pagination)
CallSelectUtxos == Calls("select_utxos")

\* self.wallet.enable()
CallEnable == Len(granted) <= MaxEnables /\ Calls("enable")

Settles(name, promise, value) ==
    /\ pc = "awaiting"
    /\ called = name
    /\ pc' = "returned"
    /\ host' = promise
    /\ result' = value
    /\ UNCHANGED <<outputs, overflow_checks, outputs2, result2, fee, to, cose_key, cose_sig,
                   called, wallet>>

GetUtxosResolves ==
    \E name \in {"all_utxos", "select_utxos"}, cbored_utxos \in UtxosAnswers(MaxElements) :
        /\ Settles(name, Resolved(cbored_utxos), GetUtxosOk(cbored_utxos))
        /\ UNCHANGED <<cip30_api, granted>>

GetUtxosRejects ==
    \E name \in {"all_utxos", "select_utxos"}, error \in ErrorValues :
        /\ Settles(name, Rejected(error), GetUtxosErr(error))
        /\ UNCHANGED <<cip30_api, granted>>

\* a slip: the handle is taken whatever the wallet answered
EnableRejectsTakingHandle ==
    \E error \in ErrorValues :
        /\ Settles("enable", Rejected(error), ErrorContent(error))
        /\ cip30_api' = 0
        /\ UNCHANGED granted

\* Wallet::enable, the arm Err(error), and the ? of ConnectedWallet::enable
EnableRejects ==
    \E error \in ErrorValues :
        /\ Settles("enable", Rejected(error), ErrorContent(error))
        /\ UNCHANGED <<cip30_api, granted>>

\* Wallet::enable, the arm Ok(cip30_api), and the assignment of ConnectedWallet::enable
EnableResolves ==
    \E handle \in Handles :
        /\ Settles("enable", Resolved(handle), Ok(Unit))
        /\ cip30_api' = handle
        /\ granted' = Append(granted, handle)

NextConnectedWallet ==
    \/ CallAllUtxos
    \/ CallSelectUtxos
    \/ CallEnable
    \/ GetUtxosResolves
    \/ GetUtxosRejects
    \/ EnableRejects
    \/ EnableResolves

SpecConnectedWallet == InitConnectedWallet /\ [][NextConnectedWallet]_vars

----------------------------------------------------------------------------
(* Claims on the connection to a wallet *)

ReturnedUtxos == pc = "returned" /\ called \in {"all_utxos", "select_utxos"}

\* the element is a string of hex digits that holds a UTxO
IsUtxoElement(element) ==
    /\ element.js = "string"
    /\ HexDecode(element.chars).ok
    /\ DecodeUtxo(HexDecode(element.chars).value).ok

\* C24: when the array getUtxos resolved with holds an element that is not a
\* string, not valid hex or not a decodable UTxO, all_utxos/select_utxos
\* returns Err(APIError): the failure is an error value, never an abort.
C24_UtxoFailuresAreErrors ==
    (/\ ReturnedUtxos
     /\ host.promise = "resolved"
     /\ host.value.js = "array"
     /\ \E i \in 1..Len(host.value.elements) : ~IsUtxoElement(host.value.elements[i]))
        => result.tag = "APIError"

PropertyValue(value, prop) ==
    value.props[CHOOSE i \in 1..Len(value.props) : value.props[i][1] = prop][2]

\* the value is an APIError of the host: an object with an integer code and a
\* string info
IsAPIError(value) ==
    /\ value.js = "object"
    /\ HasProperty(value, "code", "number")
    /\ HasProperty(value, "info", "string")

CodeOf(v) ==
    CASE v = -1 -> <<"InvalidRequest">>
      [] v = -2 -> <<"InternalError">>
      [] v = -3 -> <<"Refused">>
      [] v = -4 -> <<"AccountChange">>
      [] OTHER -> <<"Unknown", v>>

\* the error returned for a rejection: the APIError it decodes to, an
\* InternalError when it does not decode
IsErrorOf(returned, value) ==
    IF IsAPIError(value)
    THEN returned = APIError(CodeOf(PropertyValue(value, "code").num),
                             PropertyValue(value, "info").str)
    ELSE returned.tag = "APIError" /\ returned.code = <<"InternalError">>

CarriesMaxSize(value) ==
    value.js = "object" /\ \E i \in 1..Len(value.props) : value.props[i][1] = "maxSize"

\* an object whose maxSize is a size: an integer of 0..USizeMax
IsPaginateError(value) ==
    /\ HasProperty(value, "maxSize", "number")
    /\ value.js = "object"
    /\ PropertyValue(value, "maxSize").num \in 0..USizeMax

\* C26 as stated: all_utxos/select_utxos returns Ok with an empty list when the
\* wallet answers null and when it rejects with an object carrying maxSize;
\* any other rejection is returned as Err carrying the decoded APIError, or an
\* InternalError APIError when the rejection value cannot be decoded.
C26_UtxosByMaxSize ==
    ReturnedUtxos =>
        /\ (host.promise = "resolved" /\ host.value.js = "null") => result = Ok(<<>>)
        /\ (host.promise = "rejected" /\ CarriesMaxSize(host.value)) => result = Ok(<<>>)
        /\ (host.promise = "rejected" /\ ~CarriesMaxSize(host.value))
               => IsErrorOf(result, host.value)

\* C26: all_utxos/select_utxos returns Ok with an empty list when the wallet
\* answers null and when it rejects with an object carrying a maxSize that is
\* an integer of 0..USizeMax; any other rejection is returned as Err carrying
\* the decoded APIError, or an InternalError APIError when the rejection value
\* cannot be decoded.
C26_Utxos ==
    ReturnedUtxos =>
        /\ (host.promise = "resolved" /\ host.value.js = "null") => result = Ok(<<>>)
        /\ (host.promise = "rejected" /\ IsPaginateError(host.value)) => result = Ok(<<>>)
        /\ (host.promise = "rejected" /\ ~IsPaginateError(host.value))
               => IsErrorOf(result, host.value)

\* select_utxos was rejected with a pagination error that also carries a code
\* and an info
C26_Witness ==
    /\ Returned("select_utxos")
    /\ host.promise = "rejected"
    /\ IsPaginateError(host.value)
    /\ IsAPIError(host.value)
    /\ result = Ok(<<>>)

\* C25: after any sequence of enable calls the handle held is the one the most
\* recent successful wallet enable returned, the handle the connection was made
\* with if none succeeded; a failed enable returns the wallet's error, decoded,
\* and leaves the handle and the wallet reference unchanged.
C25_Enable ==
    /\ [](cip30_api = granted[Len(granted)])
    /\ [][(called' = "enable" /\ pc' = "returned")
            => /\ wallet' = wallet
               /\ IF host'.promise = "resolved"
                  THEN result' = Ok(Unit) /\ cip30_api' = host'.value
                  ELSE /\ IsErrorOf(result', host'.value)
                       /\ cip30_api' = cip30_api]_vars

\* an enable failed after two that succeeded with another handle
C25_Witness ==
    /\ Returned("enable")
    /\ host.promise = "rejected"
    /\ result = APIError(<<"AccountChange">>, "declined")
    /\ Len(granted) = 3
    /\ granted[3] # granted[1]
    /\ cip30_api = granted[3]

====
